---- MODULE Spec2Model ----
(***************************************************************************)
(* xtbug: a producer (class XTBug) ships pickled snapshots of named values *)
(* through a named pipe opened O_RDWR | O_NONBLOCK; a renderer process     *)
(* (_xterm_win) opens the pipe blocking, unpickles one snapshot per loop   *)
(* iteration and repaints a curses screen when the formatted text changed. *)
(*                                                                         *)
(* Text is modelled as sequences of character codes (ASCII), so that       *)
(* str(), pprint.pformat(), sorted() and str.format() are computed, not    *)
(* assumed.                                                                *)
(***************************************************************************)
EXTENDS Integers, Sequences, FiniteSets, TLC

(***************************************************************************)
(* Bounds of the model.                                                    *)
(***************************************************************************)
\* number of __call__ / __del__ invocations explored per behaviour
MaxCalls == 3
\* size of the kernel's pipe buffer, in units of the model's record length
PipeCapacity == 6
\* PIPE_BUF: writes of at most this many units are atomic (POSIX)
PipeBuf == 3
\* number of XTBug() constructions explored per behaviour
MaxCreates == 4

(***************************************************************************)
(* Characters (ASCII codes of the literals of the source).                 *)
(***************************************************************************)
Space == 32
Dot == 46
Newline == 10

\* lexicographic order on sequences of character codes (Python str < str)
RECURSIVE StrLess(_, _)
StrLess(s, t) ==
  IF t = <<>> THEN FALSE
  ELSE IF s = <<>> THEN TRUE
  ELSE IF Head(s) # Head(t) THEN Head(s) < Head(t)
  ELSE StrLess(Tail(s), Tail(t))

\* s * n for a one-character string: n copies, '' when n <= 0
Repeat(c, n) == [i \in 1..n |-> c]

\* s[:n]
Slice(s, n) == IF Len(s) <= n THEN s ELSE SubSeq(s, 1, n)

\* decimal digits of a natural number
RECURSIVE Digits(_)
Digits(n) == IF n < 10 THEN <<48 + n>> ELSE Digits(n \div 10) \o <<48 + (n % 10)>>

(***************************************************************************)
(* Python values of the host program.  A key or value is an int or a str;  *)
(* a dict is a function from a finite set of keys to values.               *)
(***************************************************************************)
PyStr(s) == [t |-> "str", s |-> s, n |-> 0]
PyInt(n) == [t |-> "int", s |-> <<>>, n |-> n]
\* an instance of a class without __repr__; s is its default repr
PyObj(r) == [t |-> "obj", s |-> r, n |-> 0]

\* str(k): a str is itself, an int is its decimal digits
str(k) == IF k.t = "str" THEN k.s ELSE Digits(k.n)

\* pprint.pformat(v): repr of the value; a str is quoted, an int is its digits
pformat(v) ==
  IF v.t = "str" THEN <<39>> \o v.s \o <<39>>
  ELSE IF v.t = "obj" THEN v.s
  ELSE Digits(v.n)

\* tuple comparison of (name, value) pairs, as sorted() uses it
PairLess(p, q) == StrLess(p[1], q[1]) \/ (p[1] = q[1] /\ StrLess(p[2], q[2]))

RECURSIVE Insert(_, _)
Insert(p, seq) ==
  IF seq = <<>> THEN <<p>>
  ELSE IF PairLess(Head(seq), p) THEN <<Head(seq)>> \o Insert(p, Tail(seq))
  ELSE <<p>> \o seq

\* sorted(list)
RECURSIVE sorted(_)
sorted(seq) == IF seq = <<>> THEN <<>> ELSE Insert(Head(seq), sorted(Tail(seq)))

\* list(variables.items()): the (key, value) pairs of a dict, in the dict's order
RECURSIVE items(_)
items(d) ==
  IF DOMAIN d = {} THEN <<>>
  ELSE LET k == CHOOSE x \in DOMAIN d : TRUE
       IN  <<<<k, d[k]>>>> \o items([x \in DOMAIN d \ {k} |-> d[x]])

\* sorted([(str(k), pformat(v)) for (k, v) in list(variables.items())])
Snapshot(d) == sorted([i \in 1..Len(items(d)) |-> <<str(items(d)[i][1]), pformat(items(d)[i][2])>>])

\* the loop with a default instead of the skip: dic[each] = variables.pop(each, 0)
RECURSIVE PopEachDefault(_, _, _)
PopEachDefault(vars, dic, args) ==
  IF args = <<>> THEN [variables |-> vars, dic |-> dic]
  ELSE LET each == Head(args) IN
       PopEachDefault([x \in DOMAIN vars \ {each} |-> vars[x]],
                      [x \in DOMAIN dic \cup {each} |->
                         IF x = each THEN (IF each \in DOMAIN vars THEN vars[each] ELSE PyInt(0))
                         ELSE dic[x]],
                      Tail(args))

\* the loop of __call__ over *args: dic[each] = variables.pop(each), KeyError skipped
RECURSIVE PopEach(_, _, _)
PopEach(vars, dic, args) ==
  IF args = <<>> THEN [variables |-> vars, dic |-> dic]
  ELSE LET each == Head(args) IN
       IF each \in DOMAIN vars
       THEN PopEach([x \in DOMAIN vars \ {each} |-> vars[x]],
                    [x \in DOMAIN dic \cup {each} |-> IF x = each THEN vars[each] ELSE dic[x]],
                    Tail(args))
       ELSE PopEach(vars, dic, Tail(args))

EmptyDict == [x \in {} |-> PyInt(0)]

(***************************************************************************)
(* Renderer: formatting of a decoded snapshot (main, lines 156-162) and    *)
(* the curses screen.                                                      *)
(***************************************************************************)
\* '{0} {1} '.format(name[:29], '.' * (28 - len(name[:29])))
NameField(name) ==
  Slice(name, 29) \o <<Space>> \o Repeat(Dot, 28 - Len(Slice(name, 29))) \o <<Space>>

\* "{0:30}".format(s): left-justified in a field of at least 30 characters
Pad(s) == s \o Repeat(Space, 30 - Len(s))

\* fmt.format(name, val) with fmt = "{0:30}{1}\n"
Row(name, val) == Pad(NameField(name)) \o val \o <<Newline>>

\* out after the for loop over the unpickled list
RECURSIVE Format(_)
Format(snap) ==
  IF snap = <<>> THEN <<>> ELSE Row(Head(snap)[1], Head(snap)[2]) \o Format(Tail(snap))

\* "Error: Output line too long?"
Marker ==
  <<69, 114, 114, 111, 114, 58, 32, 79, 117, 116, 112, 117, 116, 32,
    108, 105, 110, 101, 32, 116, 111, 111, 32, 108, 111, 110, 103, 63>>

\* scr.addstr(0, 0, text) on a window of width ww and height hh without
\* scrolling: TRUE when every character is placed, FALSE when curses.error is
\* raised (a newline on the bottom line, or a wrap out of the bottom-right cell)
RECURSIVE AddstrFrom(_, _, _, _, _)
AddstrFrom(text, y, x, ww, hh) ==
  IF text = <<>> THEN TRUE
  ELSE IF y >= hh \/ x >= ww THEN FALSE
  ELSE IF Head(text) = Newline
       THEN IF y = hh - 1 THEN FALSE ELSE AddstrFrom(Tail(text), y + 1, 0, ww, hh)
  ELSE IF x = ww - 1
       THEN IF y = hh - 1 THEN FALSE ELSE AddstrFrom(Tail(text), y + 1, 0, ww, hh)
  ELSE AddstrFrom(Tail(text), y, x + 1, ww, hh)

addstr(text, ww, hh) == AddstrFrom(text, 0, 0, ww, hh)

(***************************************************************************)
(* The named pipe.  Its content is the sequence of records written and not *)
(* yet read; a record carries the pickled snapshot, the length of the      *)
(* pickle and how much of it os.write actually transferred.                *)
(***************************************************************************)
\* len(pickle.dumps(snap)): a frame plus the opcodes of each pair
dumpsLen(snap) == 1 + 2 * Len(snap)

RECURSIVE Used(_)
Used(p) == IF p = <<>> THEN 0 ELSE Head(p).n + Used(Tail(p))

Complete(r) == r.n = r.size

\* a blocking descriptor: O_NONBLOCK left out
OpenFlagsBlocking == {"O_RDWR"}

\* the flags of os.open in __init__
OpenFlags == {"O_RDWR", "O_NONBLOCK"}

\* a write that queues the record ahead of the unread ones
os_write_front(fd, flags, p, snap) ==
  LET size == dumpsLen(snap)
      free == PipeCapacity - Used(p)
  IN  IF fd # "open" THEN [res |-> "EBADF", pipe |-> p]
      ELSE IF free >= size
      THEN [res |-> "ok", pipe |-> <<[snap |-> snap, n |-> size, size |-> size]>> \o p]
      ELSE [res |-> "EAGAIN", pipe |-> p]

\* os.write(self.sout, data) on the FIFO: [res, pipe]
\*   EBADF when the descriptor is closed;
\*   O_NONBLOCK, len <= PIPE_BUF: all or nothing (EAGAIN);
\*   O_NONBLOCK, len > PIPE_BUF: EAGAIN when nothing fits, else a partial write;
\*   blocking: waits for room.
os_write(fd, flags, p, snap) ==
  LET size == dumpsLen(snap)
      free == PipeCapacity - Used(p)
      put(k) == Append(p, [snap |-> snap, n |-> k, size |-> size])
  IN  IF fd # "open" THEN [res |-> "EBADF", pipe |-> p]
      ELSE IF free >= size THEN [res |-> "ok", pipe |-> put(size)]
      ELSE IF "O_NONBLOCK" \notin flags THEN [res |-> "BLOCK", pipe |-> p]
      ELSE IF size <= PipeBuf \/ free = 0 THEN [res |-> "EAGAIN", pipe |-> p]
      ELSE [res |-> "ok", pipe |-> put(free)]

\* pickle.load(sin): the outcomes the unpickler can produce on the stream p;
\* writer is TRUE while some descriptor can still write to the FIFO.
\*   a complete record at the head is returned;
\*   an empty stream blocks, or ends the file (EOFError) when no writer is left;
\*   a truncated record followed by more data either fails to unpickle or is
\*   absorbed into the unpickling of the data that follows it.
RECURSIVE load(_, _)
load(p, writer) ==
  IF p = <<>>
  THEN {[kind |-> IF writer THEN "block" ELSE "EOFError", obj |-> <<>>, rest |-> <<>>]}
  ELSE IF Complete(Head(p))
  THEN {[kind |-> "obj", obj |-> Head(p).snap, rest |-> Tail(p)]}
  ELSE IF Tail(p) = <<>>
  THEN {[kind |-> IF writer THEN "block" ELSE "EOFError", obj |-> <<>>,
         rest |-> IF writer THEN p ELSE <<>>]}
  ELSE {[kind |-> "UnpicklingError", obj |-> <<>>, rest |-> Tail(p)]}
         \cup load(Tail(p), writer)

(***************************************************************************)
(* Inputs of the host program.                                             *)
(***************************************************************************)
Ka == PyStr(<<97>>)
Kb == PyStr(<<98>>)
Kc == PyStr(<<99>>)
K1 == PyInt(1)
Ks1 == PyStr(<<49>>)

D12 == [k \in {Ka, Kb} |-> IF k = Ka THEN PyInt(1) ELSE PyInt(2)]
D32 == [k \in {Ka, Kb} |-> IF k = Ka THEN PyInt(3) ELSE PyInt(2)]
Dnum == [k \in {K1, Ks1} |-> IF k = K1 THEN PyInt(1) ELSE PyInt(2)]

\* the mappings the host program holds
Mappings == {D12, D32, Dnum}

\* the *args of a call: none (the whole mapping), names with one absent and
\* one repeated, an int and a str key with the same str()
ArgLists == {<<>>, <<Ka, Kc, Ka>>, <<K1, Ks1>>}

(***************************************************************************)
(* State.                                                                  *)
(***************************************************************************)
VARIABLES
  variables,   \* the mapping object the host program passes to __call__
  sout,        \* XTBug.sout: "unset" before os.open, "open", "closed"
  result,      \* the last producer call: [op, res, at] - the operation, how it
               \* came back to the host, and where the renderer was then
  calls,       \* number of __call__ invocations so far
  pipe,        \* content of the FIFO
  pipeFile,    \* TRUE while the FIFO's name exists in the filesystem
  rpc,         \* renderer: "AwaitingOpen", "Decoding", "Rendering", "Closed"
  sin,         \* renderer's file object: "unset", "open", "closed"
  exit,        \* renderer's exit: [code, cause], code -1 while running
  removes,     \* number of os.remove(pipe) executed by the renderer
  cur,         \* the list pickle.load returned, being formatted
  outprev,     \* main's outprev
  scr,         \* text on the curses screen
  w, h,        \* window geometry passed to xterm
  wire,        \* argument of the last os.write: the snapshot put on the wire
  accepted,    \* snapshots os.write transferred completely, in order
  decoded,     \* snapshots pickle.load returned, in order
  painted,     \* per decoded snapshot: did main repaint for it
  python,      \* major version of the interpreter running the host: 2 or 3
  count,       \* XTBug._count
  chans,       \* the endpoints further XTBug() calls made, in creation order:
               \* [index, name, sout]
  tmp          \* what sits at each FIFO name of those endpoints in /tmp

vars ==
  <<variables, sout, result, calls, pipe, pipeFile, rpc, sin, exit, removes,
    cur, outprev, scr, w, h, wire, accepted, decoded, painted,
    python, count, chans, tmp>>

prodVars == <<variables, sout, result, calls, wire, accepted>>
rendVars == <<rpc, sin, exit, removes, cur, outprev, scr, decoded, painted>>

Running == [code |-> -1, cause |-> "none"]

\* XTBug() has run up to the sleep of line 105: the FIFO exists (mkfifo), the
\* xterm running _xterm_win is launched with the default geometry, the write
\* side is not open yet.  It is the host's first and only endpoint, and the
\* host runs under Python 3.
Init ==
  /\ variables \in Mappings
  /\ sout = "unset"
  /\ result = [op |-> "none", res |-> "none", at |-> "AwaitingOpen"]
  /\ calls = 0
  /\ pipe = <<>>
  /\ pipeFile = TRUE
  /\ rpc = "AwaitingOpen"
  /\ sin = "unset"
  /\ exit = Running
  /\ removes = 0
  /\ cur = <<>>
  /\ outprev = <<>>
  /\ scr = <<>>
  /\ w = 120
  /\ h = 60
  /\ wire = <<>>
  /\ accepted = <<>>
  /\ decoded = <<>>
  /\ painted = <<>>
  /\ python = 3
  /\ count = 1
  /\ chans = <<>>
  /\ tmp = <<>>

(***************************************************************************)
(* Producer.                                                               *)
(***************************************************************************)
\* self.sout = os.open(self._pipe, O_RDWR | O_NONBLOCK): with O_RDWR the open
\* of a FIFO succeeds at once, reader or no reader
Open ==
  /\ sout = "unset"
  /\ pipeFile
  /\ sout' = "open"
  /\ UNCHANGED <<variables, result, calls, pipe, pipeFile, wire, accepted, w, h,
               python, count, chans, tmp>>
  /\ UNCHANGED rendVars

\* the host program rebinds or refills the mapping it passes (explored only
\* while a call can still follow)
HostAssign(m) ==
  /\ variables # m
  /\ calls < MaxCalls
  /\ variables' = m
  /\ UNCHANGED <<sout, result, calls, pipe, pipeFile, wire, accepted, w, h,
               python, count, chans, tmp>>
  /\ UNCHANGED rendVars

\* __call__ without its try statement: an OSError reaches the host
CallOutcomeNoExcept(res) ==
  IF res = "ok" THEN "returned" ELSE IF res = "BLOCK" THEN "blocked" ELSE "raised"

\* how an os.write outcome leaves __call__: OSError is swallowed
CallOutcome(res) ==
  IF res \in {"ok", "EAGAIN", "EBADF"} THEN "returned"
  ELSE IF res = "BLOCK" THEN "blocked"
  ELSE "raised"

\* XTBug.__call__(variables, *args); after __del__ the write fails with
\* EBADF, which is an OSError like any other
Call(args) ==
  /\ sout \in {"open", "closed"}
  /\ result.res # "blocked"
  /\ calls < MaxCalls
  /\ LET ex   == PopEach(variables, EmptyDict, args)
         sent == IF args # <<>> THEN ex.dic ELSE variables
         snap == Snapshot(sent)
         wr   == os_write(sout, OpenFlags, pipe, snap)
     IN  /\ variables' = IF args # <<>> THEN ex.variables ELSE variables
         /\ wire' = snap
         /\ pipe' = wr.pipe
         /\ accepted' = IF wr.res = "ok" /\ Used(wr.pipe) = Used(pipe) + dumpsLen(snap)
                        THEN Append(accepted, snap) ELSE accepted
         /\ result' = [op |-> "call", res |-> CallOutcome(wr.res), at |-> rpc]
  /\ calls' = calls + 1
  /\ UNCHANGED <<sout, pipeFile, w, h, python, count, chans, tmp>>
  /\ UNCHANGED rendVars

\* XTBug.__del__: os.close(self.sout); OSError (EBADF) on a closed descriptor
Close ==
  /\ sout \in {"open", "closed"}
  /\ result.res # "blocked"
  /\ sout' = "closed"
  /\ result' = IF sout = "open" THEN [op |-> "close", res |-> "returned", at |-> rpc]
               ELSE [op |-> "reclose", res |-> "raised", at |-> rpc]
  /\ pipe' = IF sout = "open" /\ sin # "open" THEN <<>> ELSE pipe
  /\ UNCHANGED <<variables, calls, pipeFile, wire, accepted, w, h,
               python, count, chans, tmp>>
  /\ UNCHANGED rendVars

(***************************************************************************)
(* Renderer (_xterm_win).                                                  *)
(***************************************************************************)
\* sin = open(pipe, 'r'): a blocking open of a FIFO for reading returns once
\* some process has it open for writing
OpenRead ==
  /\ rpc = "AwaitingOpen"
  /\ pipeFile
  /\ sout = "open"
  /\ sin' = "open"
  /\ rpc' = "Decoding"
  /\ outprev' = <<>>
  /\ UNCHANGED <<exit, removes, cur, scr, decoded, painted, pipe, pipeFile, w, h,
               python, count, chans, tmp>>
  /\ UNCHANGED prodVars

\* an exception leaves curses.wrapper(main): the except clauses decide the
\* exit code, the finally clause closes sin and removes the FIFO's name
Leave(code, cause, rest) ==
  /\ rpc' = "Closed"
  /\ sin' = "closed"
  /\ pipeFile' = FALSE
  /\ removes' = removes + 1
  /\ exit' = [code |-> code, cause |-> cause]
  /\ pipe' = IF sout = "open" THEN rest ELSE <<>>

\* every exception swallowed, as by a bare except clause
ExitCodeSwallow(exc) == 0

\* which exceptions _xterm_win catches (lines 173-176): exit code 0 for those
ExitCode(exc) == IF exc \in {"EOFError", "KeyboardInterrupt"} THEN 0 ELSE 1

\* for each in _pickle.load(sin): one record is unpickled per loop iteration
Load ==
  /\ rpc = "Decoding"
  /\ \E o \in load(pipe, sout = "open") :
       /\ o.kind # "block"
       /\ IF o.kind = "obj"
          THEN /\ cur' = o.obj
               /\ decoded' = Append(decoded, o.obj)
               /\ pipe' = o.rest
               /\ rpc' = "Rendering"
               /\ UNCHANGED <<sin, pipeFile, removes, exit>>
          ELSE /\ Leave(ExitCode(o.kind), o.kind, o.rest)
               /\ UNCHANGED <<cur, decoded>>
  /\ UNCHANGED <<outprev, scr, painted, w, h, python, count, chans, tmp>>
  /\ UNCHANGED prodVars

\* repainting for every non-empty text, changed or not
RepaintAlways(out, prev) == out # <<>>

\* the condition of line 163
Repaint(out, prev) == out # <<>> /\ out # prev

\* lines 156-170: format the list, repaint when the text changed
Render ==
  /\ rpc = "Rendering"
  /\ LET out == Format(cur) IN
       IF ~Repaint(out, outprev)
       THEN /\ painted' = Append(painted, FALSE)
            /\ rpc' = "Decoding"
            /\ UNCHANGED <<outprev, scr, sin, pipeFile, removes, exit, pipe>>
       ELSE IF addstr(out, w, h) \/ addstr(Marker, w, h)
       THEN /\ scr' = IF addstr(out, w, h) THEN out ELSE Marker
            /\ outprev' = out
            /\ painted' = Append(painted, TRUE)
            /\ rpc' = "Decoding"
            /\ UNCHANGED <<sin, pipeFile, removes, exit, pipe>>
       ELSE \* curses.error from the second addstr is not caught
            /\ scr' = <<>>
            /\ Leave(ExitCode("curses.error"), "curses.error", pipe)
            /\ UNCHANGED <<outprev, painted>>
  /\ UNCHANGED <<cur, decoded, w, h, python, count, chans, tmp>>
  /\ UNCHANGED prodVars

\* SIGINT reaches the renderer.  open() of line 145 is outside the try
\* statement: there KeyboardInterrupt ends the process with a traceback and
\* nothing is cleaned up.  Inside curses.wrapper it is caught (line 175).
Interrupt ==
  /\ rpc \in {"AwaitingOpen", "Decoding", "Rendering"}
  /\ IF rpc = "AwaitingOpen"
     THEN /\ rpc' = "Closed"
          /\ exit' = [code |-> 1, cause |-> "KeyboardInterrupt"]
          /\ UNCHANGED <<sin, pipeFile, removes, pipe>>
     ELSE Leave(ExitCode("KeyboardInterrupt"), "KeyboardInterrupt", pipe)
  /\ UNCHANGED <<cur, outprev, scr, decoded, painted, w, h,
               python, count, chans, tmp>>
  /\ UNCHANGED prodVars

Next ==
  \/ Open
  \/ \E m \in Mappings : HostAssign(m)
  \/ \E args \in ArgLists : Call(args)
  \/ Close
  \/ OpenRead
  \/ Load
  \/ Render
  \/ Interrupt

Spec == Init /\ [][Next]_vars

(***************************************************************************)
(* The renderer under other geometries and longer names.  XTBug(w=.., h=..)*)
(* hands the geometry to xterm; the host's mapping has one name of each    *)
(* length around the truncation limit of line 161.                         *)
(***************************************************************************)
\* a name of k characters
NameOf(k) == PyStr(Repeat(110, k))

NameLens == {0, 1, 28, 29, 30}

RMappings == {D12} \cup {NameOf(k) :> PyInt(1) : k \in NameLens}

\* '-geometry', 'x'.join([str(w), str(h)]): <<w, h>> as the host passes them
Geometries == {<<120, 60>>, <<120, 2>>, <<9, 3>>}

RenderInit ==
  /\ variables \in RMappings
  /\ sout = "unset"
  /\ result = [op |-> "none", res |-> "none", at |-> "AwaitingOpen"]
  /\ calls = 0
  /\ pipe = <<>>
  /\ pipeFile = TRUE
  /\ rpc = "AwaitingOpen"
  /\ sin = "unset"
  /\ exit = Running
  /\ removes = 0
  /\ cur = <<>>
  /\ outprev = <<>>
  /\ scr = <<>>
  /\ \E g \in Geometries : w = g[1] /\ h = g[2]
  /\ wire = <<>>
  /\ accepted = <<>>
  /\ decoded = <<>>
  /\ painted = <<>>
  /\ python = 3
  /\ count = 1
  /\ chans = <<>>
  /\ tmp = <<>>

RenderNext ==
  \/ Open
  \/ \E m \in RMappings : HostAssign(m)
  \/ Call(<<>>)
  \/ Close
  \/ OpenRead
  \/ Load
  \/ Render
  \/ Interrupt

RenderSpec == RenderInit /\ [][RenderNext]_vars

(***************************************************************************)
(* The truth-value form: "if x:" / "assert x" in the host.  Python 2 calls *)
(* __nonzero__ from the interpreter; Python 3 calls __bool__, which calls  *)
(* __nonzero__ as an ordinary method.                                      *)
(***************************************************************************)
Pythons == {2, 3}

\* the name self and the endpoint object bound to it ("<XTBug>", the address
\* of the default repr left out)
Kself == PyStr(<<115, 101, 108, 102>>)
Self == PyObj(<<60, 88, 84, 66, 117, 103, 62>>)

Frame(code, locals) == [code |-> code, locals |-> locals]

\* the frames on the stack while the body of __nonzero__ runs, oldest first
TruthStack(py, hostLocals) ==
  <<Frame("host", hostLocals)>>
    \o (IF py = 3 THEN <<Frame("__bool__", Kself :> Self)>> ELSE <<>>)
    \o <<Frame("__nonzero__", Kself :> Self)>>

\* inspect.currentframe().f_back, the current frame being the newest
f_back(stack) == stack[Len(stack) - 1]

\* inspect.getargvalues(frame)[-1]
getargvalues(frame) == frame.locals

\* XTBug.__nonzero__, reached through the truth-value protocol: __call__ with
\* the locals of the frame behind __nonzero__, then return True
Nonzero ==
  /\ sout \in {"open", "closed"}
  /\ result.res # "blocked"
  /\ calls < MaxCalls
  /\ LET captured == getargvalues(f_back(TruthStack(python, variables)))
         snap     == Snapshot(captured)
         wr       == os_write(sout, OpenFlags, pipe, snap)
         how      == CallOutcome(wr.res)
     IN  /\ wire' = snap
         /\ pipe' = wr.pipe
         /\ accepted' = IF wr.res = "ok" /\ Used(wr.pipe) = Used(pipe) + dumpsLen(snap)
                        THEN Append(accepted, snap) ELSE accepted
         /\ result' = [op |-> "bool", res |-> IF how = "returned" THEN "True" ELSE how,
                       at |-> rpc]
  /\ calls' = calls + 1
  /\ UNCHANGED <<variables, sout, pipeFile, w, h, python, count, chans, tmp>>
  /\ UNCHANGED rendVars

BoolInit ==
  /\ variables \in Mappings
  /\ sout = "unset"
  /\ result = [op |-> "none", res |-> "none", at |-> "AwaitingOpen"]
  /\ calls = 0
  /\ pipe = <<>>
  /\ pipeFile = TRUE
  /\ rpc = "AwaitingOpen"
  /\ sin = "unset"
  /\ exit = Running
  /\ removes = 0
  /\ cur = <<>>
  /\ outprev = <<>>
  /\ scr = <<>>
  /\ w = 120
  /\ h = 60
  /\ wire = <<>>
  /\ accepted = <<>>
  /\ decoded = <<>>
  /\ painted = <<>>
  /\ python \in Pythons
  /\ count = 1
  /\ chans = <<>>
  /\ tmp = <<>>

BoolNext ==
  \/ Open
  \/ \E m \in Mappings : HostAssign(m)
  \/ Call(<<>>)
  \/ Nonzero
  \/ Close
  \/ OpenRead
  \/ Load
  \/ Render
  \/ Interrupt

BoolSpec == BoolInit /\ [][BoolNext]_vars

(***************************************************************************)
(* Construction of several endpoints in one host process.  /tmp may hold   *)
(* leftovers of earlier runs under the FIFO names: a stale file or FIFO,   *)
(* which os.remove deletes, or something it cannot delete (a directory, a  *)
(* file of another user in the sticky /tmp).                               *)
(***************************************************************************)
\* _PIPE.format(n) with _PIPE = '/tmp/xtbug{0}.pipe'
PIPE(n) ==
  <<47, 116, 109, 112, 47, 120, 116, 98, 117, 103>> \o Digits(n)
    \o <<46, 112, 105, 112, 101>>

Names == {PIPE(i) : i \in 0..(MaxCreates - 1)}

\* the class counter left as it is
IncrementNone(c) == c

\* XTBug._count += 1
Increment(c) == c + 1

\* XTBug(): the index is taken and the counter bumped before anything can
\* fail; mkfifo, on OSError remove and mkfifo again (an OSError of remove
\* leaves __init__); Popen raises OSError when xterm cannot be started; only
\* then os.open gives the endpoint its descriptor
Create ==
  /\ Len(chans) < MaxCreates
  /\ LET mycount == count
         name    == PIPE(mycount)
         ep(fd)  == [index |-> mycount, name |-> name, sout |-> fd]
     IN  /\ count' = Increment(count)
         /\ IF tmp[name] = "stuck"
            THEN /\ chans' = Append(chans, ep("unset"))
                 /\ tmp' = tmp
            ELSE /\ tmp' = [tmp EXCEPT ![name] = "fifo"]
                 /\ \E xterm \in BOOLEAN :
                      chans' = Append(chans, ep(IF xterm THEN "open" ELSE "unset"))
  /\ UNCHANGED <<variables, sout, result, calls, pipe, pipeFile, wire, accepted,
                 w, h, python>>
  /\ UNCHANGED rendVars

\* __del__ of the k-th endpoint while its descriptor is open
Del(k) ==
  /\ k \in 1..Len(chans)
  /\ chans[k].sout = "open"
  /\ chans' = [chans EXCEPT ![k].sout = "closed"]
  /\ UNCHANGED <<variables, sout, result, calls, pipe, pipeFile, wire, accepted,
                 w, h, python, count, tmp>>
  /\ UNCHANGED rendVars

\* the renderer of the k-th endpoint reaches the end of the stream and
\* removes the FIFO's name (finally clause)
Reap(k) ==
  /\ k \in 1..Len(chans)
  /\ chans[k].sout = "closed"
  /\ tmp[chans[k].name] = "fifo"
  /\ tmp' = [tmp EXCEPT ![chans[k].name] = "absent"]
  /\ UNCHANGED <<variables, sout, result, calls, pipe, pipeFile, wire, accepted,
                 w, h, python, count, chans>>
  /\ UNCHANGED rendVars

\* a host process that has not constructed an endpoint yet
CreateInit ==
  /\ variables = D12
  /\ sout = "unset"
  /\ result = [op |-> "none", res |-> "none", at |-> "AwaitingOpen"]
  /\ calls = 0
  /\ pipe = <<>>
  /\ pipeFile = FALSE
  /\ rpc = "AwaitingOpen"
  /\ sin = "unset"
  /\ exit = Running
  /\ removes = 0
  /\ cur = <<>>
  /\ outprev = <<>>
  /\ scr = <<>>
  /\ w = 120
  /\ h = 60
  /\ wire = <<>>
  /\ accepted = <<>>
  /\ decoded = <<>>
  /\ painted = <<>>
  /\ python = 3
  /\ count = 0
  /\ chans = <<>>
  /\ tmp \in [Names -> {"absent", "stale", "stuck"}]

CreateNext ==
  \/ Create
  \/ \E k \in 1..MaxCreates : Del(k)
  \/ \E k \in 1..MaxCreates : Reap(k)

CreateSpec == CreateInit /\ [][CreateNext]_vars

(***************************************************************************)
(* Properties.                                                             *)
(***************************************************************************)
IsPrefix(s, t) == Len(s) <= Len(t) /\ SubSeq(t, 1, Len(s)) = s

\* the pickled snapshots that sit complete in the FIFO, in order
RECURSIVE Queued(_)
Queued(p) ==
  IF p = <<>> THEN <<>>
  ELSE IF Complete(Head(p)) THEN <<Head(p).snap>> \o Queued(Tail(p))
  ELSE Queued(Tail(p))

S12 == Snapshot(D12)
S32 == Snapshot(D32)

\* C1 (drop-not-block): every __call__ comes back to the host - it neither
\* blocks nor raises - whatever the state of the FIFO and of the renderer, and
\* the FIFO never holds more than its capacity, however many snapshots were
\* submitted.
C1_DropNotBlock ==
  /\ result.op = "call" => result.res = "returned"
  /\ Used(pipe) <= PipeCapacity
  /\ Len(pipe) <= PipeCapacity

\* C1 witness: no renderer attached, every allowed submission made, at least
\* one of them not queued, the FIFO full
C1_Witness ==
  /\ rpc = "AwaitingOpen"
  /\ sout = "open"
  /\ calls = MaxCalls
  /\ Len(accepted) < calls
  /\ Used(pipe) = PipeCapacity
  /\ result = [op |-> "call", res |-> "returned", at |-> "AwaitingOpen"]

\* C2 (ordering): the snapshots the renderer has unpickled are a prefix of the
\* snapshots that were written completely, in submission order; while the
\* renderer is in its loop, the ones not yet unpickled are exactly the ones
\* still queued in the FIFO, in the same order.
C2_Ordering ==
  /\ IsPrefix(decoded, accepted)
  /\ rpc \in {"Decoding", "Rendering"} => decoded \o Queued(pipe) = accepted

\* C2 witness: three submissions, one dropped, the two others unpickled in the
\* order of their submission
C2_Witness ==
  /\ calls = 3
  /\ Len(decoded) = 2
  /\ decoded = accepted
  /\ decoded[1] # decoded[2]

\* C3 (idempotent render): a snapshot equal to the one unpickled just before
\* it causes no repaint; a repaint happens only for a text that differs from
\* the text of the previous repaint; {a:1,b:2}, {a:1,b:2}, {a:3,b:2}
\* delivered give exactly two repaints and leave the rows of a=3, b=2 on
\* screen.
C3_IdempotentRender ==
  /\ \A i \in 2..Len(painted) : decoded[i] = decoded[i - 1] => ~painted[i]
  /\ \A i \in 1..Len(painted) : \A j \in 1..(i - 1) :
       (painted[i] /\ painted[j] /\ \A k \in (j + 1)..(i - 1) : ~painted[k])
         => Format(decoded[i]) # Format(decoded[j])
  /\ (decoded = <<S12, S12, S32>> /\ Len(painted) = 3)
       => painted = <<TRUE, FALSE, TRUE>> /\ scr = Format(S32)

\* C3 witness: the scenario has been rendered
C3_Witness ==
  /\ decoded = <<S12, S12, S32>>
  /\ painted = <<TRUE, FALSE, TRUE>>
  /\ scr = Format(S32)

\* C4 (end-of-stream shutdown), as claimed: when the producer closed its
\* descriptor while the renderer was in its loop, the renderer, once it has
\* left the loop, has exit code 0, has closed sin and has removed the FIFO
\* exactly once, and every snapshot that was written completely has been
\* unpickled.
C4_EndOfStream ==
  (result.op = "close" /\ result.at \in {"Decoding", "Rendering"} /\ rpc = "Closed"
     /\ exit.cause # "KeyboardInterrupt")
    => /\ exit.code = 0
       /\ sin = "closed"
       /\ ~pipeFile
       /\ removes = 1
       /\ decoded = accepted

\* C5 (interrupt is a normal shutdown), as claimed: a renderer ended by an
\* interrupt has exit code 0, holds no open read handle and has removed the
\* FIFO.
C5_InterruptNormal ==
  exit.cause = "KeyboardInterrupt"
    => exit.code = 0 /\ sin # "open" /\ ~pipeFile /\ removes = 1

\* C6 (malformed record): the renderer that could not unpickle a record is
\* closed with a non-zero exit code, sin closed and the FIFO removed exactly
\* once (as it is after end-of-stream), and from then on it unpickles and
\* paints nothing.
C6_MalformedFatal ==
  /\ [](removes <= 1)
  /\ [](exit.cause \in {"UnpicklingError", "EOFError"}
          => rpc = "Closed" /\ sin = "closed" /\ ~pipeFile /\ removes = 1)
  /\ [](exit.cause = "UnpicklingError" => exit.code # 0)
  /\ [][exit.cause = "UnpicklingError"
          => UNCHANGED <<rpc, sin, exit, removes, pipeFile, cur, decoded, painted, scr, outprev>>]_vars

\* C6 witness: the renderer met a record it could not unpickle
C6_Witness ==
  /\ exit.cause = "UnpicklingError"
  /\ Len(decoded) > 0
  /\ calls = MaxCalls

\* C7 (consumer failures never reach the producer): a __call__ or the __del__
\* of the open endpoint made after the renderer has terminated, for whatever
\* reason, comes back to the host without blocking and without an exception.
C7_ProducerShielded ==
  (result.at = "Closed" /\ result.op \in {"call", "close"}) => result.res = "returned"

\* C7 witness: the renderer has terminated and removed the FIFO; the producer
\* went on writing until the FIFO was full and its last write was not queued
C7_Witness ==
  /\ rpc = "Closed"
  /\ ~pipeFile
  /\ removes = 1
  /\ sout = "open"
  /\ result = [op |-> "call", res |-> "returned", at |-> "Closed"]
  /\ wire # <<>>
  /\ Queued(pipe) # <<>>
  /\ wire # Queued(pipe)[Len(Queued(pipe))]

\* C8 (latest wins), as claimed: with the endpoint open, once the renderer has
\* consumed everything in the FIFO the screen shows the rows of the snapshot
\* submitted last.
C8_LatestWins ==
  (sout = "open" /\ rpc = "Decoding" /\ pipe = <<>> /\ calls > 0 /\ wire # <<>>)
    => scr = Format(wire)

Range(seq) == {seq[i] : i \in 1..Len(seq)}

\* C9 (SubmitNamed extraction): a call with names puts on the wire one pair
\* (str(n), pformat(M[n])) for each requested name n that is a key of M and no
\* other pair; names that are not keys, and repeated names, are skipped and
\* the call comes back to the host.
C9_Extraction ==
  [][\A args \in ArgLists :
       (args # <<>> /\ Call(args))
         => /\ Range(wire') =
                 {<<str(n), pformat(variables[n])>> : n \in Range(args) \cap DOMAIN variables}
            /\ Len(wire') = Cardinality(Range(args) \cap DOMAIN variables)
            /\ result'.res = "returned"]_vars

\* C9 witness: names a, c, a were requested from {a: 1, b: 2}
C9_Witness ==
  /\ wire = <<<<str(Ka), pformat(PyInt(1))>>>>
  /\ DOMAIN variables = {Kb}

\* C10 (name collapsing), as claimed: the snapshot on the wire, and every
\* unpickled snapshot, is strictly increasing by name: sorted, and no name
\* twice.
StrictlyByName(snap) ==
  \A i \in 1..Len(snap) : \A j \in 1..Len(snap) : i < j => StrLess(snap[i][1], snap[j][1])

C10_NameUnique ==
  /\ StrictlyByName(wire)
  /\ \A i \in 1..Len(decoded) : StrictlyByName(decoded[i])

\* C13 (Close is idempotent-safe), as claimed: __del__ comes back to the host
\* without an exception, also when it runs on an endpoint that is already
\* closed.
C13_CloseSafe ==
  result.op \in {"close", "reclose"} => result.res = "returned"

\* C14 (Submit is all-or-nothing), as claimed: a __call__ leaves the FIFO as it
\* was, or as it was followed by the one complete pickle of the snapshot it
\* submitted.
C14_AllOrNothing ==
  [][\A args \in ArgLists :
       Call(args)
         => \/ pipe' = pipe
            \/ pipe' = Append(pipe, [snap |-> wire', n |-> dumpsLen(wire'),
                                     size |-> dumpsLen(wire')])]_vars

\* what the screen shows after a repaint for the text out
Shown(out) == IF addstr(out, w, h) THEN out ELSE Marker

\* C15 (displayed frame tracks the last delivered snapshot), as claimed: when
\* the renderer is back at pickle.load, the screen shows the rows (or the
\* marker) of the snapshot it unpickled last, also when that one has no pairs.
C15_FrameTracksLast ==
  (rpc = "Decoding" /\ decoded # <<>>) => scr = Shown(Format(decoded[Len(decoded)]))

\* C18 (SubmitNamed leaves the caller's mapping unchanged), as claimed: a
\* __call__ returns with the mapping it was given holding the keys and values
\* it held before.
C18_MappingUnchanged ==
  [][\A args \in ArgLists : Call(args) => variables' = variables]_vars

\* C19 (renderer termination does not depend on the open order), as claimed:
\* once the producer's descriptor is closed, a renderer that no interrupt
\* has hit is Closed with the FIFO removed, or has a step of its own left to
\* take towards it (its open, a pickle.load or a repaint); it is never stuck.
C19_OpenOrder ==
  (sout = "closed" /\ exit.cause # "KeyboardInterrupt")
    => \/ rpc = "Closed" /\ ~pipeFile
       \/ ENABLED (OpenRead \/ Load \/ Render)

\* the width of the name field of a row
NameWidth(name) == Len(Pad(NameField(name)))

\* C16 (fixed-width name column), as claimed: in every row the renderer
\* formats, the name field is as wide as that of the empty name, whatever the
\* length of the name, so the value starts at the same column.
C16_FixedWidth ==
  \A i \in 1..Len(decoded) : \A j \in 1..Len(decoded[i]) :
    NameWidth(decoded[i][j][1]) = NameWidth(<<>>)

\* C17 (RenderOverflow is never fatal), as claimed: when the text of the
\* snapshot to repaint does not fit the window, whatever its geometry, the
\* renderer shows the marker, remembers the text as outprev and is back at
\* pickle.load.
C17_OverflowNeverFatal ==
  [][(Render /\ Repaint(Format(cur), outprev) /\ ~addstr(Format(cur), w, h))
       => (scr' = Marker /\ outprev' = Format(cur) /\ rpc' = "Decoding")]_vars

\* C11 (SubmitAll always reports success), as claimed: every truth-value check
\* of the endpoint comes back True, whatever the state of the descriptor, the
\* FIFO and the renderer, and what it writes is the snapshot of the locals of
\* the host frame that evaluated the check.
C11_TruthyCheck ==
  [][Nonzero => (result'.res = "True" /\ wire' = Snapshot(variables))]_vars

\* C12 (channel indices): the class counter equals the number of XTBug()
\* constructions so far; the k-th construction, failed, closed or live, has
\* index k-1 and the FIFO name made from it; two endpoints whose descriptors
\* are open at the same time never have the same FIFO name.
C12_ChannelIndices ==
  /\ count = Len(chans)
  /\ \A k \in 1..Len(chans) : chans[k].index = k - 1 /\ chans[k].name = PIPE(k - 1)
  /\ \A j, k \in 1..Len(chans) :
       (j # k /\ chans[j].sout = "open" /\ chans[k].sout = "open")
         => chans[j].name # chans[k].name

\* a failed construction and a closed endpoint are followed by two live ones
C12_Witness ==
  /\ Len(chans) >= 4
  /\ chans[1].sout = "unset"
  /\ chans[2].sout = "closed"
  /\ chans[3].sout = "open"
  /\ chans[4].sout = "open"

====
